---- MODULE Spec2Model ----
(***************************************************************************)
(* Model of src/main.py: the YouTube comment fetcher.                       *)
(*                                                                         *)
(* run() reads a URL, extracts a video id with a regular expression and    *)
(* hands it to YouTubeCommentsTool._run, which pages through the comment   *)
(* API, accumulates records in the list `comments` and appends them to     *)
(* three files (Markdown, CSV, JSON) through save_comments.                *)
(*                                                                         *)
(* A comment record is represented by its arrival number (1 for the first  *)
(* item of the first page, 2 for the next, ...).  A Markdown line and a    *)
(* CSV row are [i |-> index written, c |-> record]; the CSV header is the  *)
(* row Header.  The JSON file is the sequence of the objects appended, one *)
(* batch each.  A string is a sequence of one-character strings.           *)
(* All save_comments calls of one run are taken on the same date, so one   *)
(* run writes one triad of files.                                          *)
(***************************************************************************)
EXTENDS Integers, Sequences, FiniteSets, TLC

VARIABLES
    url,              \* run: the text typed at the prompt
    video_id,         \* run: result of extract_video_id, NoMatch for None
    api_key,          \* the environment: value of YOUTUBE_API_KEY
    pc,               \* position in run / _run
    outcome,          \* why _run returned
    comments,         \* _run: the in-memory batch
    next_page_token,  \* _run: continuation token of the last response
    total_comments,   \* _run: the running total used for numbering
    md, csv, json,    \* the three output files
    prior_lines,      \* number of lines the Markdown file held before the run
    requests,         \* number of requests.get calls made
    fetched,          \* number of items received so far
    saves,            \* log of the save_comments calls of this run
    result,           \* the list _run returned
    logged_total      \* the N of 'Total N comments fetched', -1 if not logged

vars == <<url, video_id, api_key, pc, outcome, comments, next_page_token,
          total_comments, md, csv, json, prior_lines, requests, fetched,
          saves, result, logged_total>>

-----------------------------------------------------------------------------
(* Bounds of the model *)

MaxPages == 3

PageSizes == {0, 37, 99, 100}

PriorLines == {0, 3}

FailPoints == {"none", "md", "csv", "json"}

(* Program constants *)

MaxResults == 100

FlushThreshold == 100

IdLen == 11

None == "None"

NoMatch == <<>>

Header == [i |-> 0, c |-> 0]

ApiKeys == {None, "", "AIza"}

-----------------------------------------------------------------------------
(* Strings *)

IdChars ==
    {"0", "1", "2", "3", "4", "5", "6", "7", "8", "9", "A", "B", "C",
     "D", "E", "F", "G", "H", "I", "J", "K", "L", "M", "N", "O", "P",
     "Q", "R", "S", "T", "U", "V", "W", "X", "Y", "Z", "a", "b", "c",
     "d", "e", "f", "g", "h", "i", "j", "k", "l", "m", "n", "o", "p",
     "q", "r", "s", "t", "u", "v", "w", "x", "y", "z", "_", "-"}

Schemes ==
    {<<>>,
     <<"h", "t", "t", "p", "s", ":", "/", "/">>}

Hosts ==
    {<<"w", "w", "w", ".", "y", "o", "u", "t", "u", "b", "e", ".", "c", "o", "m">>,
     <<"y", "o", "u", "t", "u", ".", "b", "e">>,
     <<"y", "o", "u", "t", "u", "b", "e", "-", "n", "o", "c", "o", "o", "k", "i", "e", ".", "c", "o", "m">>}

Paths ==
    {<<"/", "w", "a", "t", "c", "h", "?", "v", "=">>,
     <<"/">>,
     <<"/", "e", "m", "b", "e", "d", "/">>,
     <<"/", "w", "a", "t", "c", "h", "?", "l", "i", "s", "t", "=", "P", "L", "r", "A", "X", "t", "m", "E", "r", "Z", "g", "O", "e", "i", "K", "m", "4", "&", "v", "=">>}

Ids ==
    {<<"d", "Q", "w", "4", "w", "9", "W", "g", "X", "c", "Q">>,
     <<"a", "_", "B", "-", "c", "1", "D", "2", "e", "3", "F">>,
     <<"s", "h", "o", "r", "t">>,
     <<>>}

Suffixes ==
    {<<>>,
     <<"&", "t", "=", "5", "s">>,
     <<"/", "r", "e", "l", "a", "t", "e", "d">>}

(* The URLs typed at the prompt: scheme, host, path, identifier, suffix *)
Urls ==
    {s \o h \o p \o i \o x : s \in Schemes, h \in Hosts, p \in Paths,
                             i \in Ids, x \in Suffixes}

ExampleUrl ==
    <<"h", "t", "t", "p", "s", ":", "/", "/", "w", "w", "w", ".", "y", "o", "u", "t", "u", "b", "e", ".", "c", "o", "m", "/", "w", "a", "t", "c", "h", "?", "v", "=", "d", "Q", "w", "4", "w", "9", "W", "g", "X", "c", "Q", "&", "t", "=", "5", "s">>

NoCookieUrl ==
    <<"h", "t", "t", "p", "s", ":", "/", "/", "y", "o", "u", "t", "u", "b", "e", "-", "n", "o", "c", "o", "o", "k", "i", "e", ".", "c", "o", "m", "/", "e", "m", "b", "e", "d", "/", "d", "Q", "w", "4", "w", "9", "W", "g", "X", "c", "Q">>

BadUrl ==
    <<"y", "o", "u", "t", "u", ".", "b", "e", "/", "s", "h", "o", "r", "t">>

(* URLs without an identifier: a host with a short label after the scheme
   and a short or empty identifier *)
InvalidUrls ==
    {s \o h \o p \o i \o x :
        s \in Schemes,
        h \in {u \in Hosts : Len(u) < 20},
        p \in Paths,
        i \in {u \in Ids : Len(u) < IdLen},
        x \in Suffixes}

(* The URLs of the runs that are followed through _run *)
RunUrls == {ExampleUrl, BadUrl} \cup InvalidUrls

-----------------------------------------------------------------------------
(* extract_video_id: re.search(r"(?:v=|\/)([0-9A-Za-z_-]{11}).*", url) *)

(* the characters of s from position p on are at least IdLen identifier
   characters: the group ([0-9A-Za-z_-]{11}) matches at p *)
GroupAt(s, p) ==
    /\ p + IdLen - 1 <= Len(s)
    /\ \A k \in p .. (p + IdLen - 1) : s[k] \in IdChars

(* the position of the group when the pattern matches at position p of s,
   0 when it does not: (?:v=|\/) then the group; the trailing .* always
   matches *)
MatchAt(s, p) ==
    IF p + 1 <= Len(s) /\ s[p] = "v" /\ s[p + 1] = "=" /\ GroupAt(s, p + 2)
    THEN p + 2
    ELSE IF s[p] = "/" /\ GroupAt(s, p + 1)
    THEN p + 1
    ELSE 0

(* re.search: the leftmost position where the pattern matches *)
SearchStart(s) ==
    LET hits == {p \in 1 .. Len(s) : MatchAt(s, p) # 0}
    IN  IF hits = {} THEN 0
        ELSE CHOOSE p \in hits : \A q \in hits : p <= q

extract_video_id(s) ==
    LET p == SearchStart(s)
    IN  IF p = 0 THEN NoMatch
        ELSE SubSeq(s, MatchAt(s, p), MatchAt(s, p) + IdLen - 1)

-----------------------------------------------------------------------------
(* The files *)

(* the files a previous run of the same day left behind: n numbered lines *)
PriorMd(n) == [k \in 1 .. n |-> [i |-> k, c |-> 0 - k]]

PriorCsv(n) == IF n = 0 THEN <<>> ELSE <<Header>> \o PriorMd(n)

PriorJson(n) == IF n = 0 THEN <<>> ELSE <<[k \in 1 .. n |-> 0 - k]>>

(* enumerate(comments, start=start_index + 1) *)
Numbered(batch, start_index) ==
    [k \in 1 .. Len(batch) |-> [i |-> start_index + k, c |-> batch[k]]]

(* a Markdown file opened with "w": each flush replaces the file *)
SaveMd_truncate(file, batch, start_index, fail) ==
    IF fail = "md" THEN file
    ELSE Numbered(batch, start_index)

(* save_comments, the Markdown file: fail = "md" is a failure to open it *)
SaveMd(file, batch, start_index, fail) ==
    IF fail = "md" THEN file
    ELSE file \o Numbered(batch, start_index)

(* the header is written when the start index is 0 *)
WritesHeader(start_index) == start_index = 0

(* save_comments, the CSV file: reached when the Markdown write succeeded *)
SaveCsv(file, batch, start_index, fail) ==
    IF fail \in {"md", "csv"} THEN file
    ELSE file \o (IF WritesHeader(start_index) THEN <<Header>> ELSE <<>>)
              \o Numbered(batch, start_index)

(* save_comments, the JSON file: one object {"comments": batch} appended *)
SaveJson(file, batch, start_index, fail) ==
    IF fail = "none" THEN Append(file, batch) ELSE file

(* a save_comments that returns the start index it was given on success *)
SaveReturn_stale(batch, start_index, fail) == start_index

(* a save_comments that advances the total although a write failed *)
SaveReturn_advance(batch, start_index, fail) == start_index + Len(batch)

(* the value save_comments returns *)
SaveReturn(batch, start_index, fail) ==
    IF fail = "none" THEN start_index + Len(batch) ELSE start_index

(* the entry of the log for one save_comments call *)
SaveCall(batch, start_index, fail) ==
    [start |-> start_index, n |-> Len(batch), fail |-> fail,
     ret |-> SaveReturn(batch, start_index, fail), batch |-> batch]

(* the names get_current_comment_count can resolve: its parameter and the
   names bound at module level *)
MethodScope ==
    {"self", "os", "requests", "logging", "load_dotenv", "re", "csv", "json",
     "datetime", "YouTubeCommentsTool", "extract_video_id", "run"}

(* get_current_comment_count: the f-string reads video_id and date_str; a
   name that does not resolve raises NameError, which the except clause
   turns into 0 *)
get_current_comment_count(file) ==
    IF {"video_id", "date_str"} \subseteq MethodScope
    THEN Len(file)
    ELSE 0

-----------------------------------------------------------------------------
(* _run *)

(* a key check that tests for None only *)
KeyMissing_none_only(k) == k = None

(* if not api_key *)
KeyMissing(k) == k \in {None, ""}

(* a threshold test with > in place of >= *)
NeedsFlush_strict(batch) == Len(batch) > FlushThreshold

(* if len(comments) >= 100 *)
NeedsFlush(batch) == Len(batch) >= FlushThreshold

(* an except clause that returns the batch accumulated so far *)
ErrorResult_partial(batch) == batch

(* return [] of the except clauses *)
ErrorResult(batch) == <<>>

(* a loop that never sees the end of the pages *)
NoMoreToken_never(t) == FALSE

(* the classes of an exception, from its own class up to Exception *)
Ancestors(kind) ==
    CASE kind = "RequestException" -> {"RequestException", "OSError", "Exception"}
      [] kind = "KeyError" -> {"KeyError", "LookupError", "Exception"}
      [] kind = "OSError" -> {"OSError", "Exception"}
      [] kind = "NameError" -> {"NameError", "Exception"}

(* a _run without its second except clause *)
RunCatches_http_only(kind) == Ancestors(kind) \cap {"RequestException"} # {}

(* the except clauses of _run: RequestException, then Exception *)
RunCatches(kind) ==
    Ancestors(kind) \cap {"RequestException", "Exception"} # {}

(* if not next_page_token *)
NoMoreToken(t) == t \in {None, ""}

Tokens == {None, "CAUQAA"}

(* the items of a page of n items, as records in arrival order *)
PageItems(n) == [k \in 1 .. n |-> fetched + k]

InitCommon ==
    /\ video_id = NoMatch
    /\ api_key \in ApiKeys
    /\ pc = "run"
    /\ outcome = "none"
    /\ comments = <<>>
    /\ next_page_token = None
    /\ total_comments = 0
    /\ prior_lines \in PriorLines
    /\ md = PriorMd(prior_lines)
    /\ csv = PriorCsv(prior_lines)
    /\ json = PriorJson(prior_lines)
    /\ requests = 0
    /\ fetched = 0
    /\ saves = <<>>
    /\ result = <<>>
    /\ logged_total = -1

Init ==
    /\ url \in RunUrls
    /\ InitCommon

(* a run that goes on whatever extract_video_id returned *)
InvalidId_never(v) == FALSE

(* if not video_id *)
InvalidId(v) == v = NoMatch

(* run: extract the identifier; an invalid URL ends the run *)
RunExtract ==
    /\ pc = "run"
    /\ video_id' = extract_video_id(url)
    /\ pc' = IF InvalidId(video_id') THEN "invalid" ELSE "_run"
    /\ UNCHANGED <<url, api_key, outcome, comments, next_page_token,
                   total_comments, md, csv, json, prior_lines, requests,
                   fetched, saves, result, logged_total>>

(* _run with no API key: log and return [] *)
NoApiKey ==
    /\ pc = "_run"
    /\ KeyMissing(api_key)
    /\ result' = <<>>
    /\ outcome' = "no_key"
    /\ pc' = "returned"
    /\ UNCHANGED <<url, video_id, api_key, comments, next_page_token,
                   total_comments, md, csv, json, prior_lines, requests,
                   fetched, saves, logged_total>>

(* _run with a key: initialise the batch, the token and the running total *)
Begin ==
    /\ pc = "_run"
    /\ ~KeyMissing(api_key)
    /\ comments' = <<>>
    /\ next_page_token' = None
    /\ total_comments' = get_current_comment_count(md)
    /\ pc' = "request"
    /\ UNCHANGED <<url, video_id, api_key, outcome, md, csv, json,
                   prior_lines, requests, fetched, saves, result,
                   logged_total>>

(* one iteration of the loop: a page of n items and continuation token tok
   arrives; the periodic save, when taken, fails at fail *)
FetchPage(n, tok, fail) ==
    /\ pc = "request"
    /\ requests < MaxPages
    /\ requests + 1 = MaxPages => NoMoreToken(tok)
    /\ LET batch == comments \o PageItems(n)
       IN  /\ ~NeedsFlush(batch) => fail = "none"
           /\ IF NeedsFlush(batch)
              THEN /\ md' = SaveMd(md, batch, total_comments, fail)
                   /\ csv' = SaveCsv(csv, batch, total_comments, fail)
                   /\ json' = SaveJson(json, batch, total_comments, fail)
                   /\ saves' = Append(saves, SaveCall(batch, total_comments, fail))
                   /\ total_comments' = SaveReturn(batch, total_comments, fail)
                   /\ comments' = <<>>
              ELSE /\ comments' = batch
                   /\ UNCHANGED <<md, csv, json, saves, total_comments>>
    /\ requests' = requests + 1
    /\ fetched' = fetched + n
    /\ next_page_token' = tok
    /\ pc' = IF NoMoreToken(tok) THEN "final" ELSE "request"
    /\ UNCHANGED <<url, video_id, api_key, outcome, prior_lines, result,
                   logged_total>>

(* a failure handler that saves the batch in memory before it returns *)
RequestFails_flush ==
    /\ pc = "request"
    /\ requests < MaxPages
    /\ requests' = requests + 1
    /\ md' = SaveMd(md, comments, total_comments, "none")
    /\ csv' = SaveCsv(csv, comments, total_comments, "none")
    /\ json' = SaveJson(json, comments, total_comments, "none")
    /\ saves' = Append(saves, SaveCall(comments, total_comments, "none"))
    /\ result' = ErrorResult(comments)
    /\ outcome' = "http_error"
    /\ pc' = "returned"
    /\ UNCHANGED <<url, video_id, api_key, comments, next_page_token,
                   total_comments, prior_lines, fetched, logged_total>>

(* requests.get or raise_for_status raises: the except clause returns [] *)
RequestFails ==
    /\ pc = "request"
    /\ requests < MaxPages
    /\ requests' = requests + 1
    /\ result' = ErrorResult(comments)
    /\ outcome' = "http_error"
    /\ pc' = IF RunCatches("RequestException") THEN "returned" ELSE "crashed"
    /\ UNCHANGED <<url, video_id, api_key, comments, next_page_token,
                   total_comments, md, csv, json, prior_lines, fetched,
                   saves, logged_total>>

(* the response body has no "items": data["items"] raises KeyError before
   any record is appended, and the second except clause returns [] *)
BadResponse ==
    /\ pc = "request"
    /\ requests < MaxPages
    /\ requests' = requests + 1
    /\ result' = ErrorResult(comments)
    /\ outcome' = "bad_response"
    /\ pc' = IF RunCatches("KeyError") THEN "returned" ELSE "crashed"
    /\ UNCHANGED <<url, video_id, api_key, comments, next_page_token,
                   total_comments, md, csv, json, prior_lines, fetched,
                   saves, logged_total>>

(* after the loop: save the remaining comments, log the total, return *)
FinalSave(fail) ==
    /\ pc = "final"
    /\ md' = SaveMd(md, comments, total_comments, fail)
    /\ csv' = SaveCsv(csv, comments, total_comments, fail)
    /\ json' = SaveJson(json, comments, total_comments, fail)
    /\ saves' = Append(saves, SaveCall(comments, total_comments, fail))
    /\ logged_total' = total_comments
    /\ result' = comments
    /\ outcome' = "ok"
    /\ pc' = "returned"
    /\ UNCHANGED <<url, video_id, api_key, comments, next_page_token,
                   total_comments, prior_lines, requests, fetched>>

Next ==
    \/ RunExtract
    \/ NoApiKey
    \/ Begin
    \/ \E n \in PageSizes, tok \in Tokens, fail \in FailPoints :
          FetchPage(n, tok, fail)
    \/ RequestFails
    \/ BadResponse
    \/ \E fail \in FailPoints : FinalSave(fail)

Spec == Init /\ [][Next]_vars

(* the program is sequential and no call blocks for ever: a step that can
   be taken is taken *)
FairSpec == Init /\ [][Next]_vars /\ WF_vars(Next)

(* the identifier extractor alone, over all the URLs *)
InitExtract ==
    /\ url \in Urls
    /\ InitCommon

NextExtract == RunExtract

SpecExtract == InitExtract /\ [][NextExtract]_vars

-----------------------------------------------------------------------------
(* Types *)

TypeOK ==
    /\ pc \in {"run", "invalid", "_run", "request", "final", "returned",
              "crashed"}
    /\ outcome \in {"none", "no_key", "http_error", "bad_response", "ok"}
    /\ api_key \in ApiKeys
    /\ total_comments \in Nat
    /\ requests \in 0 .. MaxPages
    /\ fetched \in Nat
    /\ Len(saves) <= MaxPages + 1

-----------------------------------------------------------------------------
(* Helpers of the properties *)

CeilDiv(a, b) == (a + b - 1) \div b

(* what this run appended to the Markdown and the CSV file *)
RunMd == SubSeq(md, Len(PriorMd(prior_lines)) + 1, Len(md))

RunCsv == SubSeq(csv, Len(PriorCsv(prior_lines)) + 1, Len(csv))

RunJson == SubSeq(json, Len(PriorJson(prior_lines)) + 1, Len(json))

(* the rows of a CSV file without its header rows *)
IsDataRow(row) == row # Header

DataRows(rows) == SelectSeq(rows, IsDataRow)

HeaderCount(rows) == Cardinality({k \in DOMAIN rows : rows[k] = Header})

(* the records this run wrote to some file *)
WrittenRecords ==
    {RunMd[k].c : k \in DOMAIN RunMd}
        \cup ({RunCsv[k].c : k \in DOMAIN RunCsv} \ {0})
        \cup UNION {{RunJson[k][j] : j \in DOMAIN RunJson[k]} : k \in DOMAIN RunJson}

NoWriteFailure == \A k \in DOMAIN saves : saves[k].fail = "none"

Contiguous(rows) == \A k \in DOMAIN rows : rows[k].i = k

-----------------------------------------------------------------------------
(* C1: on a run with no request and no write failure, the number of
   save_comments calls equals ceil(total items / 100). *)
C1_FlushCount ==
    (outcome = "ok" /\ NoWriteFailure)
        => Len(saves) = CeilDiv(fetched, FlushThreshold)

C3_HeaderOnce ==
    (pc = "returned" /\ \E k \in DOMAIN saves : saves[k].fail \notin {"md", "csv"})
        => HeaderCount(RunCsv) = 1

(* C4: a successful save_comments returns start index + batch size, and on
   a run without failure the indices written to the Markdown and the CSV
   file are 1, 2, ... up to the number of records written, which at the end
   is the number of records fetched. *)
C4_ContiguousNumbering ==
    /\ \A k \in DOMAIN saves :
          saves[k].fail = "none" => saves[k].ret = saves[k].start + saves[k].n
    /\ NoWriteFailure =>
          /\ Contiguous(RunMd)
          /\ Contiguous(DataRows(RunCsv))
          /\ Len(DataRows(RunCsv)) = Len(RunMd)
          /\ outcome = "ok" => Len(RunMd) = fetched

C4_Witness ==
    /\ outcome = "ok"
    /\ NoWriteFailure
    /\ Len(saves) = 2
    /\ saves[1].start = 0 /\ saves[1].n = 100 /\ saves[1].ret = 100
    /\ saves[2].start = 100 /\ saves[2].n = 37 /\ saves[2].ret = 137
    /\ Len(RunMd) = 137
    /\ RunMd[137].i = 137

C6_FailureFrame ==
    [][outcome' = "http_error" =>
          /\ md' = md /\ csv' = csv /\ json' = json
          /\ saves' = saves
          /\ outcome = "http_error" => requests' = requests
          /\ \A k \in DOMAIN comments' : comments'[k] \notin WrittenRecords'
      ]_vars

C6_Witness ==
    /\ outcome = "http_error"
    /\ Len(saves) >= 1
    /\ Len(comments) > 0
    /\ Len(RunMd) > 0

(* C7: with the API key unset or empty, no request and no save_comments
   call is made, no file changes, and _run returns an empty list. *)
C7_NoKeyNoEffect ==
    api_key \in {None, ""} =>
        /\ requests = 0
        /\ saves = <<>>
        /\ md = PriorMd(prior_lines)
        /\ csv = PriorCsv(prior_lines)
        /\ json = PriorJson(prior_lines)
        /\ pc \in {"run", "invalid", "_run", "returned"}
        /\ pc = "returned" => (result = <<>> /\ outcome = "no_key")

C7_Witness ==
    /\ api_key = ""
    /\ pc = "returned"
    /\ outcome = "no_key"

(* C8: a save_comments call in which a write fails returns the start index
   it was given, the running total stays where it was, and _run goes on to
   the next request or to its normal end. *)
C8_FailedSaveContinues ==
    [][(Len(saves') > Len(saves) /\ saves'[Len(saves')].fail # "none") =>
          /\ saves'[Len(saves')].ret = saves'[Len(saves')].start
          /\ total_comments' = total_comments
          /\ pc' \in {"request", "final", "returned"}
          /\ outcome' \in {"none", "ok"}
      ]_vars

C8_Witness ==
    /\ outcome = "ok"
    /\ Len(saves) = 2
    /\ saves[1].fail = "csv"
    /\ saves[1].n >= FlushThreshold
    /\ requests = 2

(* C9: the first flush of a run numbers its records from n + 1 when the
   Markdown file held n lines before the run. *)
C9_ResumeNumbering ==
    (Len(saves) >= 1 /\ saves[1].n > 0 /\ saves[1].fail # "md")
        => md[prior_lines + 1].i = prior_lines + 1

-----------------------------------------------------------------------------
(* extract_video_id *)

(* the positions of the identifier segments of s: exactly 11 identifier
   characters directly after "v=" or "/" *)
Segments(s) ==
    {p \in 2 .. Len(s) :
        /\ \/ s[p - 1] = "/"
           \/ (p > 2 /\ s[p - 2] = "v" /\ s[p - 1] = "=")
        /\ p + IdLen - 1 <= Len(s)
        /\ \A k \in p .. (p + IdLen - 1) : s[k] \in IdChars
        /\ (p + IdLen <= Len(s) => s[p + IdLen] \notin IdChars)}

(* C10: for a URL with an identifier segment, extract_video_id returns
   that segment. *)
C10_ExtractsSegment ==
    (pc # "run" /\ Cardinality(Segments(url)) = 1)
        => \A p \in Segments(url) : video_id = SubSeq(url, p, p + IdLen - 1)

-----------------------------------------------------------------------------
(* no "v=" and no "/" of s is followed by 11 identifier characters *)
NoPatternMatch(s) ==
    \A p \in 1 .. Len(s) :
        LET g == IF s[p] = "/" THEN p + 1
                 ELSE IF p < Len(s) /\ s[p] = "v" /\ s[p + 1] = "=" THEN p + 2
                 ELSE 0
        IN  g # 0 =>
              \E k \in g .. (g + IdLen - 1) : k > Len(s) \/ s[k] \notin IdChars

(* C11: for a URL with no segment matching the pattern, extract_video_id
   returns no match and run returns before it constructs the tool: no
   request is made and no file is written. *)
C11_InvalidUrlNoEffect ==
    (NoPatternMatch(url) /\ pc # "run") =>
        /\ video_id = NoMatch
        /\ pc = "invalid"
        /\ requests = 0
        /\ saves = <<>>
        /\ md = PriorMd(prior_lines)
        /\ csv = PriorCsv(prior_lines)
        /\ json = PriorJson(prior_lines)

C11_Witness ==
    /\ pc = "invalid"
    /\ NoPatternMatch(url)
    /\ url = BadUrl
    /\ ~KeyMissing(api_key)

-----------------------------------------------------------------------------
(* C12: with finitely many pages, the last one without a continuation
   token, the loop of _run stops: every request is made at the start of the
   loop or after a page that carried a token, the loop is left exactly
   after the page without a token, nothing is requested after it, and _run
   returns. *)
C12_LoopStops ==
    /\ [][requests' # requests =>
            /\ pc = "request"
            /\ requests' = requests + 1
            /\ requests = 0 \/ next_page_token \notin {None, ""}
        ]_vars
    /\ [][(pc = "request" /\ pc' \in {"request", "final"}) =>
            (pc' = "final" <=> next_page_token' \in {None, ""})
        ]_vars
    /\ [][(pc \in {"final", "returned"}) => (requests' = requests)
        ]_vars
    /\ (pc = "request") ~> (pc = "returned")

C12_Witness ==
    /\ pc = "returned"
    /\ outcome = "ok"
    /\ requests = MaxPages
    /\ next_page_token = None

-----------------------------------------------------------------------------
(* the records of a sequence of batches, one after the other *)
RECURSIVE Flatten(_)
Flatten(batches) ==
    IF batches = <<>> THEN <<>>
    ELSE Head(batches) \o Flatten(Tail(batches))

(* the records of a sequence of numbered lines *)
Records(rows) == [k \in DOMAIN rows |-> rows[k].c]

(* the items of all pages in arrival order *)
AllFetched == [k \in 1 .. fetched |-> k]

(* C13: on a run without request or write failure, once the page without a
   token has been handled and _run has returned, each of the three files
   holds the records of all pages in arrival order, each exactly once. *)
C13_AllFlushedInOrder ==
    (outcome = "ok" /\ NoWriteFailure) =>
        /\ Records(RunMd) = AllFetched
        /\ Records(DataRows(RunCsv)) = AllFetched
        /\ Flatten(RunJson) = AllFetched

C13_Witness ==
    /\ outcome = "ok"
    /\ NoWriteFailure
    /\ Len(saves) = 2
    /\ saves[1].n = 199
    /\ saves[2].n = 37
    /\ fetched = 236
    /\ Records(RunMd) = AllFetched

-----------------------------------------------------------------------------
(* C14: no failure leaves _run, save_comments or get_current_comment_count
   as an exception: _run ends by returning a list, empty after a missing
   key, a failed request or a response without the expected fields; every
   save_comments call returns a running total, failed or not; the resume
   read yields a number although it fails. *)
C14_NoExceptionEscapes ==
    /\ pc # "crashed"
    /\ outcome \in {"no_key", "http_error", "bad_response"} =>
          (pc = "returned" /\ result = <<>>)
    /\ outcome = "ok" => (pc = "returned" /\ result \in Seq(1 .. fetched))
    /\ \A k \in DOMAIN saves : saves[k].ret \in Nat
    /\ pc \in {"request", "final"} => total_comments \in Nat

C14_Witness ==
    /\ outcome = "bad_response"
    /\ pc = "returned"
    /\ result = <<>>
    /\ \E k \in DOMAIN saves : saves[k].fail # "none"

-----------------------------------------------------------------------------
(* the index numbers of a sequence of numbered lines are all different *)
DistinctIndices(rows) ==
    \A j, k \in DOMAIN rows : j # k => rows[j].i # rows[k].i

(* the records of a batch *)
BatchRecords(batch) == {batch[k] : k \in DOMAIN batch}

InMd(r) == \E k \in DOMAIN RunMd : RunMd[k].c = r

InCsv(r) == \E k \in DOMAIN RunCsv : RunCsv[k].c = r

InJson(r) == \E k \in DOMAIN RunJson : r \in BatchRecords(RunJson[k])

(* C15: whatever flushes fail, no index number is written twice to the
   Markdown or to the CSV file in one run, and a batch handed to a failed
   flush is not left in some of the files only: at the end of the run each
   of its records is in all three files or in none. *)
C15_NoDuplicateNoPartial ==
    /\ DistinctIndices(RunMd)
    /\ DistinctIndices(DataRows(RunCsv))
    /\ pc = "returned" =>
          \A k \in DOMAIN saves :
              saves[k].fail # "none" =>
                  \A r \in BatchRecords(saves[k].batch) :
                      \/ InMd(r) /\ InCsv(r) /\ InJson(r)
                      \/ ~InMd(r) /\ ~InCsv(r) /\ ~InJson(r)

(* C16: on a run without failure the total that _run logs at its end is
   the number of records fetched and written in the run. *)
C16_LoggedTotal ==
    (outcome = "ok" /\ NoWriteFailure) => logged_total = fetched

(* C17: on a successful run, none of its writes failing, the list _run
   returns holds every record fetched in the run, in arrival order. *)
C17_ReturnsAll ==
    (outcome = "ok" /\ NoWriteFailure) => result = AllFetched

====
